---- MODULE Spec2Model ----
(***************************************************************************)
(* Model of src/vm.rs of wren-rust: the safe wrapper (VM, Handle) around   *)
(* the Wren engine's slot API.                                             *)
(*                                                                         *)
(* The Rust side (VM values, Handle values, the Rc<RawHandle> cells) and   *)
(* the engine side (instances, their slot arrays, lists and handle tables) *)
(* are separate parts of the state.  Every wrapper method of vm.rs is an   *)
(* operator from a machine (engine state + the ffi calls made so far + a   *)
(* pending panic) to an outcome [m, ret]; the ffi functions it calls are   *)
(* operators on the machine.  An ffi call whose engine-side precondition   *)
(* is violated (freed instance, slot out of range, released handle, ...)   *)
(* is logged with ok = FALSE and marks the machine ub: the behaviour is    *)
(* undefined from there on and the model does not continue past it.        *)
(***************************************************************************)
EXTENDS Integers, Sequences, FiniteSets, TLC

VARIABLES
    world,   \* engine side: [inst, nextRef, ub]
    vms,     \* Rust side: how many VM values {raw, owned} of each kind exist
    cells,   \* Rust side: the Rc<RawHandle> allocations; the Handle values
             \* that exist are the strong references to them
    res      \* the last operation: its name, arguments, ffi calls, panic, result

vars == <<world, vms, cells, res>>

---------------------------------------------------------------------------
(* Bounds of the model. *)

MaxInstances == 2      \* engine instances ever constructed
MaxVMs == 2            \* VM values existing at one time
MaxCells == 1          \* handles ever created (Rc cells)
MaxClones == 1         \* clones made of one handle
MaxSlot == 1           \* largest ordinary slot argument
MaxListLen == 1        \* lists are not grown past this length

I32Max == 2147483647
I32Min == -I32Max - 1

Ptrs == 1..MaxInstances
CellIds == 1..MaxCells
ListIds == {1}             \* one list object is alive at a time

---------------------------------------------------------------------------
(* Values held by the engine: a type tag and the payload, a sequence of    *)
(* words (a bool is the word 0 or 1, a list or foreign object its          *)
(* identity) or the bytes of a string.                                     *)

Types == {"Bool", "Num", "Foreign", "List", "Null", "String", "Unknown"}

NullValue == [t |-> "Null", v |-> <<>>]
BoolValue(b) == [t |-> "Bool", v |-> <<IF b THEN 1 ELSE 0>>]
NumValue(n) == [t |-> "Num", v |-> <<n>>]
StringValue(bytes) == [t |-> "String", v |-> bytes]
ListValue(id) == [t |-> "List", v |-> <<id>>]
ForeignValue(p) == [t |-> "Foreign", v |-> <<p>>]
UnknownValue(o) == [t |-> "Unknown", v |-> <<o>>]

(* The state of one engine instance address: its slot array, its list      *)
(* objects, the handles it has issued and not released, whether a script   *)
(* has defined the module variable the model looks up, and how often it    *)
(* was freed.                                                              *)
NoList == [used |-> FALSE, items |-> <<>>]
EmptyList == [used |-> TRUE, items |-> <<>>]

UnbornInstance ==
    [st |-> "unborn", slots |-> <<>>, lists |-> [l \in ListIds |-> NoList],
     handles |-> {}, defined |-> FALSE, frees |-> 0]

NewInstance == [UnbornInstance EXCEPT !.st = "alive"]

---------------------------------------------------------------------------
(* The machine an operation runs on: the engine state, plus the ffi calls  *)
(* the operation has made, the panic it has raised ("" for none), and the  *)
(* values an undefined or script-dependent engine call yields (orc).       *)

InterpretResults == {"Success", "CompileError", "RuntimeError"}

Start(w, orc) ==
    [inst |-> w.inst, nextRef |-> w.nextRef, ub |-> w.ub,
     calls |-> <<>>, panic |-> "", orc |-> orc]

(* A list object nothing refers to any more is collected; its place is    *)
(* free for the next list.                                                 *)
Range(seq) == {seq[i] : i \in 1..Len(seq)}
ListRefs(vals) == {x.v[1] : x \in {y \in vals : y.t = "List"}}
Roots(e) == ListRefs(Range(e.slots) \cup {h.val : h \in e.handles})

RECURSIVE Reach(_, _)
Reach(e, S) ==
    LET S2 == S \cup ListRefs(UNION {Range(e.lists[l].items) : l \in S})
    IN  IF S2 = S THEN S ELSE Reach(e, S2)

Collect(e) ==
    IF \A l \in ListIds : e.lists[l] = NoList THEN e
    ELSE [e EXCEPT !.lists = [l \in ListIds |-> IF l \in Reach(e, Roots(e)) THEN e.lists[l] ELSE NoList]]

Finish(m) ==
    [inst |-> [p \in Ptrs |-> Collect(m.inst[p])], nextRef |-> m.nextRef, ub |-> m.ub]

Unit == [k |-> "unit"]
Ok(m, ret) == [m |-> m, ret |-> ret]
Panic(m, msg) == [m |-> [m EXCEPT !.panic = msg], ret |-> Unit]
Stopped(m) == m.panic # "" \/ m.ub

Alive(m, p) == m.inst[p].st = "alive"
SlotCount(m, p) == Len(m.inst[p].slots)
InRange(m, p, slot) == slot >= 0 /\ slot < SlotCount(m, p)
LiveRefs(m, p) == {h.ref : h \in m.inst[p].handles}
Referent(m, p, ref) == (CHOOSE h \in m.inst[p].handles : h.ref = ref).val

(* One ffi call: logged with its arguments and whether the engine's       *)
(* precondition for it held; a violated precondition is undefined          *)
(* behaviour.                                                              *)
Ffi(m, fn, p, args, out, ok) ==
    [m EXCEPT !.calls = Append(@, [fn |-> fn, vm |-> p, args |-> args, out |-> out, ok |-> ok,
                                   n |-> SlotCount(m, p)]),
              !.ub = @ \/ ~ok]

---------------------------------------------------------------------------
(* The engine: the functions of module ffi, as wren.h documents them. *)

wrenNewVM(m) ==
    LET p == CHOOSE q \in Ptrs : m.inst[q].st = "unborn" /\ \A r \in Ptrs : r < q => m.inst[r].st # "unborn"
        m1 == Ffi(m, "wrenNewVM", p, <<>>, p, TRUE)
    IN  Ok([m1 EXCEPT !.inst[p] = NewInstance], p)

wrenFreeVM(m, p) ==
    LET ok == Alive(m, p)
        m1 == Ffi(m, "wrenFreeVM", p, <<>>, 0, ok)
    IN  Ok([m1 EXCEPT !.inst[p].st = "freed", !.inst[p].frees = @ + 1,
                      !.inst[p].slots = <<>>, !.inst[p].handles = {}], Unit)

wrenGetSlotCount(m, p) ==
    LET ok == Alive(m, p)
        n == IF ok THEN SlotCount(m, p) ELSE m.orc.n
    IN  Ok(Ffi(m, "wrenGetSlotCount", p, <<>>, n, ok), n)

wrenEnsureSlots(m, p, numSlots) ==
    LET ok == Alive(m, p)
        m1 == Ffi(m, "wrenEnsureSlots", p, <<numSlots>>, 0, ok)
        have == SlotCount(m, p)
    IN  IF ok /\ numSlots > have
        THEN Ok([m1 EXCEPT !.inst[p].slots = @ \o [i \in 1..(numSlots - have) |-> NullValue]], Unit)
        ELSE Ok(m1, Unit)

wrenMakeCallHandle(m, p, signature) ==
    LET ok == Alive(m, p)
        m1 == Ffi(m, "wrenMakeCallHandle", p, <<>>, m.nextRef, ok)
        h == [ref |-> m.nextRef, val |-> UnknownValue(0)]
    IN  IF ok
        THEN Ok([m1 EXCEPT !.nextRef = @ + 1, !.inst[p].handles = @ \cup {h}], m.nextRef)
        ELSE Ok(m1, m.nextRef)

wrenGetSlotHandle(m, p, slot) ==
    LET ok == Alive(m, p) /\ InRange(m, p, slot)
        m1 == Ffi(m, "wrenGetSlotHandle", p, <<slot>>, m.nextRef, ok)
    IN  IF ok
        THEN Ok([m1 EXCEPT !.nextRef = @ + 1,
                           !.inst[p].handles = @ \cup {[ref |-> m.nextRef, val |-> m.inst[p].slots[slot + 1]]}],
                m.nextRef)
        ELSE Ok(m1, m.nextRef)

wrenSetSlotHandle(m, p, slot, ref) ==
    LET ok == Alive(m, p) /\ InRange(m, p, slot) /\ ref \in LiveRefs(m, p)
        m1 == Ffi(m, "wrenSetSlotHandle", p, <<slot, ref>>, 0, ok)
    IN  IF ok
        THEN Ok([m1 EXCEPT !.inst[p].slots[slot + 1] = Referent(m, p, ref)], Unit)
        ELSE Ok(m1, Unit)

wrenReleaseHandle(m, p, ref) ==
    LET ok == Alive(m, p) /\ ref \in LiveRefs(m, p)
        m1 == Ffi(m, "wrenReleaseHandle", p, <<ref>>, 0, ok)
    IN  IF ok
        THEN Ok([m1 EXCEPT !.inst[p].handles = {h \in @ : h.ref # ref}], Unit)
        ELSE Ok(m1, Unit)

(* The script's effect on the slot array is not modelled: the call's      *)
(* outcome is whatever the script produces (orc.ir).                       *)
wrenCall(m, p, ref) ==
    LET ok == Alive(m, p) /\ ref \in LiveRefs(m, p)
    IN  Ok(Ffi(m, "wrenCall", p, <<ref>>, 0, ok), m.orc.ir)

wrenGetSlotType(m, p, slot) ==
    LET ok == Alive(m, p) /\ InRange(m, p, slot)
        t == IF ok THEN m.inst[p].slots[slot + 1].t ELSE m.orc.t
    IN  Ok(Ffi(m, "wrenGetSlotType", p, <<slot>>, t, ok), t)

HoldsType(m, p, slot, t) == Alive(m, p) /\ InRange(m, p, slot) /\ m.inst[p].slots[slot + 1].t = t

wrenGetSlotBool(m, p, slot) ==
    LET ok == HoldsType(m, p, slot, "Bool")
        b == IF ok THEN m.inst[p].slots[slot + 1].v[1] = 1 ELSE m.orc.b
    IN  Ok(Ffi(m, "wrenGetSlotBool", p, <<slot>>, 0, ok), b)

wrenGetSlotDouble(m, p, slot) ==
    LET ok == HoldsType(m, p, slot, "Num")
        d == IF ok THEN m.inst[p].slots[slot + 1].v[1] ELSE m.orc.n
    IN  Ok(Ffi(m, "wrenGetSlotDouble", p, <<slot>>, 0, ok), d)

wrenGetSlotForeign(m, p, slot) ==
    LET ok == HoldsType(m, p, slot, "Foreign")
        f == IF ok THEN m.inst[p].slots[slot + 1].v[1] ELSE m.orc.n
    IN  Ok(Ffi(m, "wrenGetSlotForeign", p, <<slot>>, 0, ok), f)

(* A string's bytes lie in memory followed by a terminating NUL.  The      *)
(* engine returns the address, and for wrenGetSlotBytes also the length.   *)
wrenGetSlotBytes(m, p, slot) ==
    LET ok == HoldsType(m, p, slot, "String")
        b == IF ok THEN m.inst[p].slots[slot + 1].v ELSE m.orc.s
    IN  Ok(Ffi(m, "wrenGetSlotBytes", p, <<slot>>, 0, ok), [ptr |-> b \o <<0>>, length |-> Len(b)])

wrenGetSlotString(m, p, slot) ==
    LET ok == HoldsType(m, p, slot, "String")
        b == IF ok THEN m.inst[p].slots[slot + 1].v ELSE m.orc.s
    IN  Ok(Ffi(m, "wrenGetSlotString", p, <<slot>>, 0, ok), b \o <<0>>)

(* An engine write of value v into a slot. *)
SlotWrite(m, fn, p, slot, v) ==
    LET ok == Alive(m, p) /\ InRange(m, p, slot)
        m1 == Ffi(m, fn, p, <<slot>>, 0, ok)
    IN  IF ok THEN Ok([m1 EXCEPT !.inst[p].slots[slot + 1] = v], Unit) ELSE Ok(m1, Unit)

(* The bytes of a C string: those before the first NUL. *)
RECURSIVE CStrBytes(_)
CStrBytes(mem) ==
    IF mem = <<>> \/ Head(mem) = 0 THEN <<>> ELSE <<Head(mem)>> \o CStrBytes(Tail(mem))

wrenSetSlotBool(m, p, slot, value) == SlotWrite(m, "wrenSetSlotBool", p, slot, BoolValue(value))

wrenSetSlotDouble(m, p, slot, value) == SlotWrite(m, "wrenSetSlotDouble", p, slot, NumValue(value))

wrenSetSlotNull(m, p, slot) == SlotWrite(m, "wrenSetSlotNull", p, slot, NullValue)

wrenSetSlotBytes(m, p, slot, bytes, length) ==
    SlotWrite(m, "wrenSetSlotBytes", p, slot, StringValue(SubSeq(bytes, 1, length)))

wrenSetSlotString(m, p, slot, text) ==
    SlotWrite(m, "wrenSetSlotString", p, slot, StringValue(CStrBytes(text)))

FreeListIds(m, p) == {l \in ListIds : ~m.inst[p].lists[l].used}

wrenSetSlotNewList(m, p, slot) ==
    LET ok == Alive(m, p) /\ InRange(m, p, slot)
        m1 == Ffi(m, "wrenSetSlotNewList", p, <<slot>>, 0, ok)
        l == CHOOSE x \in FreeListIds(m, p) : \A y \in FreeListIds(m, p) : x <= y
    IN  IF ok
        THEN Ok([m1 EXCEPT !.inst[p].lists[l] = EmptyList, !.inst[p].slots[slot + 1] = ListValue(l)], Unit)
        ELSE Ok(m1, Unit)

(* The one class the model's scripts define is a foreign class. *)
ForeignClass == UnknownValue(1)
ForeignPointer == 1

wrenSetSlotNewForeign(m, p, slot, classSlot, size) ==
    LET ok == Alive(m, p) /\ InRange(m, p, slot) /\ InRange(m, p, classSlot)
              /\ m.inst[p].slots[classSlot + 1] = ForeignClass
        m1 == Ffi(m, "wrenSetSlotNewForeign", p, <<slot, classSlot>>, 0, ok)
    IN  IF ok
        THEN Ok([m1 EXCEPT !.inst[p].slots[slot + 1] = ForeignValue(ForeignPointer)], ForeignPointer)
        ELSE Ok(m1, m.orc.n)

wrenGetListCount(m, p, slot) ==
    LET ok == HoldsType(m, p, slot, "List")
        n == IF ok THEN Len(m.inst[p].lists[m.inst[p].slots[slot + 1].v[1]].items) ELSE m.orc.n
    IN  Ok(Ffi(m, "wrenGetListCount", p, <<slot>>, n, ok), n)

wrenGetListElement(m, p, listSlot, index, elementSlot) ==
    LET isList == HoldsType(m, p, listSlot, "List") /\ InRange(m, p, elementSlot)
        items == m.inst[p].lists[m.inst[p].slots[listSlot + 1].v[1]].items
        ok == isList /\ index >= 0 /\ index < Len(items)
        m1 == Ffi(m, "wrenGetListElement", p, <<listSlot, index, elementSlot>>, 0, ok)
    IN  IF ok
        THEN Ok([m1 EXCEPT !.inst[p].slots[elementSlot + 1] = items[index + 1]], Unit)
        ELSE Ok(m1, Unit)

InsertAt(items, at, v) == SubSeq(items, 1, at) \o <<v>> \o SubSeq(items, at + 1, Len(items))

(* The engine counts a negative index from the end before inserting. *)
wrenInsertInList(m, p, listSlot, index, elementSlot) ==
    LET isList == HoldsType(m, p, listSlot, "List") /\ InRange(m, p, elementSlot)
        l == m.inst[p].slots[listSlot + 1].v[1]
        items == m.inst[p].lists[l].items
        at == IF index < 0 THEN Len(items) + 1 + index ELSE index
        ok == isList /\ at >= 0 /\ at <= Len(items)
        m1 == Ffi(m, "wrenInsertInList", p, <<listSlot, index, elementSlot>>, 0, ok)
    IN  IF ok
        THEN Ok([m1 EXCEPT !.inst[p].lists[l].items = InsertAt(items, at, m.inst[p].slots[elementSlot + 1])], Unit)
        ELSE Ok(m1, Unit)

(* The scripts of the model define one module with one variable, a foreign *)
(* class; looking up anything else is outside the engine's contract.       *)
TheModule == <<109>>
TheVariable == <<70>>

wrenGetVariable(m, p, module, name, slot) ==
    LET ok == Alive(m, p) /\ InRange(m, p, slot) /\ m.inst[p].defined
              /\ CStrBytes(module) = TheModule /\ CStrBytes(name) = TheVariable
        m1 == Ffi(m, "wrenGetVariable", p, <<slot>>, 0, ok)
    IN  IF ok THEN Ok([m1 EXCEPT !.inst[p].slots[slot + 1] = ForeignClass], Unit) ELSE Ok(m1, Unit)

(* wrenAbortFiber makes the value in the slot the error of the current   *)
(* fiber; the slot has to exist.                                           *)
wrenAbortFiber(m, p, slot) ==
    LET ok == Alive(m, p) /\ InRange(m, p, slot)
    IN  Ok(Ffi(m, "wrenAbortFiber", p, <<slot>>, 0, ok), Unit)

(* What a script does is the engine's business: the model's scripts are    *)
(* one that defines the foreign class and succeeds, one that does not      *)
(* compile and one that fails while running.                               *)
GoodScript == <<49>>
BadSyntaxScript == <<50>>
ThrowingScript == <<51>>

ScriptResult(source) ==
    IF source = GoodScript THEN "Success"
    ELSE IF source = BadSyntaxScript THEN "CompileError" ELSE "RuntimeError"

wrenInterpret(m, p, source) ==
    LET ok == Alive(m, p)
        r == ScriptResult(CStrBytes(source))
        m1 == Ffi(m, "wrenInterpret", p, <<source>>, r, ok)
    IN  IF ok /\ r = "Success" THEN Ok([m1 EXCEPT !.inst[p].defined = TRUE], r) ELSE Ok(m1, r)

wrenInterpretInModule(m, p, module, source) ==
    LET ok == Alive(m, p)
        r == ScriptResult(CStrBytes(source))
        m1 == Ffi(m, "wrenInterpretInModule", p, <<module, source>>, r, ok)
    IN  IF ok /\ r = "Success" /\ CStrBytes(module) = TheModule
        THEN Ok([m1 EXCEPT !.inst[p].defined = TRUE], r) ELSE Ok(m1, r)

---------------------------------------------------------------------------
(* Text passed to the engine.  A Rust string is a sequence of bytes that   *)
(* may hold NUL; CString::new refuses such a string, and unwrap() of the   *)
(* refusal panics.                                                         *)

HasNul(s) == \E i \in 1..Len(s) : s[i] = 0
NulError == "unwrap on Err: NulError"

---------------------------------------------------------------------------
(* struct VM { raw, owned } and its constructors and destructor. *)

VM_new(m) ==
    LET o == wrenNewVM(m)
    IN  Ok(o.m, [raw |-> o.ret, owned |-> TRUE])

VM_from_ptr_owning(m, ptr) == Ok(m, [raw |-> ptr, owned |-> TRUE])

VM_from_ptr(m, ptr) == Ok(m, [raw |-> ptr, owned |-> FALSE])

VM_drop_always_frees(m, self) == wrenFreeVM(m, self.raw)

VM_drop(m, self) ==
    IF self.owned THEN wrenFreeVM(m, self.raw) ELSE Ok(m, Unit)

---------------------------------------------------------------------------
(* struct RawHandle { raw, vm }, Handle(Rc<RawHandle>). *)

RawHandle_drop_on_other_vm(m, self) == wrenReleaseHandle(m, CHOOSE p \in Ptrs : p # self.vm, self.raw)

RawHandle_drop(m, self) == wrenReleaseHandle(m, self.vm, self.raw)

(* Rc::new: one allocation holding the RawHandle and a strong count of 1. *)
Rc_new(rh) == [st |-> "live", strong |-> 1, raw |-> rh.raw, vm |-> rh.vm]

(* #[derive(Clone)] on Handle: Rc::clone, one more strong reference to the *)
(* same allocation.                                                        *)
Handle_clone(m, cell) == Ok(m, [cell EXCEPT !.strong = @ + 1])

Handle_drop_releases_early(m, cell) ==
    IF cell.strong = 1
    THEN Ok(m, [cell EXCEPT !.strong = 0, !.st = "dead"])
    ELSE LET o == RawHandle_drop(m, cell)
         IN  Ok(o.m, [cell EXCEPT !.strong = @ - 1])

Handle_drop_releases_each_time(m, cell) ==
    LET o == RawHandle_drop(m, cell)
    IN  Ok(o.m, [cell EXCEPT !.strong = @ - 1, !.st = IF cell.strong = 1 THEN "dead" ELSE "live"])

(* Dropping a Handle drops its Rc: the strong count goes down by one, and  *)
(* the RawHandle inside is dropped when it reaches zero.                   *)
Handle_drop(m, cell) ==
    IF cell.strong = 1
    THEN LET o == RawHandle_drop(m, cell)
         IN  Ok(o.m, [cell EXCEPT !.strong = 0, !.st = "dead"])
    ELSE Ok(m, [cell EXCEPT !.strong = @ - 1])

---------------------------------------------------------------------------
(* impl VM: the methods that create and use handles. *)

get_slot_count(m, self) == wrenGetSlotCount(m, self.raw)

ensure_slots_resizing(m, self, num_slots) ==
    LET o == wrenEnsureSlots(m, self.raw, num_slots)
    IN  IF Stopped(o.m) \/ num_slots < 0 THEN o
        ELSE Ok([o.m EXCEPT !.inst[self.raw].slots = SubSeq(@, 1, num_slots)], Unit)

ensure_slots(m, self, num_slots) == wrenEnsureSlots(m, self.raw, num_slots)

make_call_handle(m, self, signature) ==
    IF HasNul(signature) THEN Panic(m, NulError)
    ELSE LET o == wrenMakeCallHandle(m, self.raw, signature)
         IN  Ok(o.m, [raw |-> o.ret, vm |-> self.raw])

call(m, self, method) == wrenCall(m, self.raw, method.raw)

get_slot_handle_unchecked(m, self, slot) ==
    LET o == wrenGetSlotHandle(m, self.raw, slot)
    IN  Ok(o.m, [raw |-> o.ret, vm |-> self.raw])

get_slot_handle(m, self, slot) ==
    LET c == get_slot_count(m, self)
    IN  IF Stopped(c.m) THEN Ok(c.m, Unit)
        ELSE IF ~(c.ret > slot) THEN Panic(c.m, "Slot is out of bounds")
        ELSE LET o == wrenGetSlotHandle(c.m, self.raw, slot)
             IN  Ok(o.m, [raw |-> o.ret, vm |-> self.raw])

(* slot + 1 on i32: past i32::MAX the addition panics in a build with      *)
(* overflow checks and wraps around in one without (orc.checks).           *)
add_i32(m, a, b) ==
    CASE b > 0 /\ a > I32Max - b ->
            IF m.orc.checks THEN Panic(m, "attempt to add with overflow")
            ELSE Ok(m, (a - I32Max - 1) + (b - I32Max - 1))
      [] b < 0 /\ a < I32Min - b ->
            IF m.orc.checks THEN Panic(m, "attempt to add with overflow")
            ELSE Ok(m, (a + I32Max + 1) + (b + I32Max + 1))
      [] OTHER -> Ok(m, a + b)

(* self.ensure_slots(slot + 1), the first statement of every slot writer. *)
ensure_slot(m, self, slot) ==
    LET n == add_i32(m, slot, 1)
    IN  IF Stopped(n.m) THEN n ELSE ensure_slots(n.m, self, n.ret)

set_slot_handle(m, self, slot, handle) ==
    LET e == ensure_slot(m, self, slot)
    IN  IF Stopped(e.m) THEN e
        ELSE wrenSetSlotHandle(e.m, self.raw, slot, handle.raw)

---------------------------------------------------------------------------
(* impl VM: interpret. *)

interpret(m, self, source) ==
    IF HasNul(source) THEN Panic(m, NulError)
    ELSE wrenInterpret(m, self.raw, source \o <<0>>)

interpret_in_module(m, self, module, source) ==
    IF HasNul(module) \/ HasNul(source) THEN Panic(m, NulError)
    ELSE wrenInterpretInModule(m, self.raw, module \o <<0>>, source \o <<0>>)

---------------------------------------------------------------------------
(* impl VM: typed slot reads.  Option<T> is [k |-> "some", v |-> x] or     *)
(* [k |-> "none"].                                                         *)

Some(x) == [k |-> "some", v |-> x]
None == [k |-> "none"]

get_slot_type(m, self, slot) ==
    LET c == get_slot_count(m, self)
    IN  IF Stopped(c.m) THEN Ok(c.m, Unit)
        ELSE IF ~(c.ret > slot) THEN Panic(c.m, "Slot is out of bounds")
        ELSE wrenGetSlotType(c.m, self.raw, slot)

get_slot_bool_unchecked(m, self, slot) ==
    LET g == wrenGetSlotBool(m, self.raw, slot)
    IN  Ok(g.m, Some(g.ret # FALSE))

get_slot_bool(m, self, slot) ==
    LET t == get_slot_type(m, self, slot)
    IN  IF Stopped(t.m) THEN Ok(t.m, Unit)
        ELSE IF t.ret = "Bool"
        THEN LET g == wrenGetSlotBool(t.m, self.raw, slot)
             IN  Ok(g.m, Some(g.ret # FALSE))
        ELSE Ok(t.m, None)

(* slice::from_raw_parts(ptr, length): the length bytes at ptr. *)
get_slot_bytes(m, self, slot) ==
    LET t == get_slot_type(m, self, slot)
    IN  IF Stopped(t.m) THEN Ok(t.m, Unit)
        ELSE IF t.ret = "String"
        THEN LET g == wrenGetSlotBytes(t.m, self.raw, slot)
             IN  Ok(g.m, Some(SubSeq(g.ret.ptr, 1, g.ret.length)))
        ELSE Ok(t.m, None)

get_slot_double(m, self, slot) ==
    LET t == get_slot_type(m, self, slot)
    IN  IF Stopped(t.m) THEN Ok(t.m, Unit)
        ELSE IF t.ret = "Num"
        THEN LET g == wrenGetSlotDouble(t.m, self.raw, slot)
             IN  Ok(g.m, Some(g.ret))
        ELSE Ok(t.m, None)

get_slot_foreign(m, self, slot) ==
    LET t == get_slot_type(m, self, slot)
    IN  IF Stopped(t.m) THEN Ok(t.m, Unit)
        ELSE IF t.ret = "Foreign"
        THEN LET g == wrenGetSlotForeign(t.m, self.raw, slot)
             IN  Ok(g.m, Some(g.ret))
        ELSE Ok(t.m, None)

(* A byte sequence is UTF-8 when str::from_utf8 accepts it; the model's    *)
(* bytes are ASCII ones and 255, which no UTF-8 text holds.                *)
IsUtf8(bytes) == \A i \in 1..Len(bytes) : bytes[i] < 128

(* CStr::from_ptr(ptr).to_str().unwrap(): the bytes up to the first NUL,   *)
(* refused with a panic when they are not UTF-8.                           *)
get_slot_string(m, self, slot) ==
    LET t == get_slot_type(m, self, slot)
    IN  IF Stopped(t.m) THEN Ok(t.m, Unit)
        ELSE IF t.ret = "String"
        THEN LET g == wrenGetSlotString(t.m, self.raw, slot)
                 text == CStrBytes(g.ret)
             IN  IF g.m.ub THEN Ok(g.m, Some(text))
                 ELSE IF ~IsUtf8(text) THEN Panic(g.m, "unwrap on Err: Utf8Error")
                 ELSE Ok(g.m, Some(text))
        ELSE Ok(t.m, None)

---------------------------------------------------------------------------
(* impl VM: slot writes. *)

set_slot_bool(m, self, slot, value) ==
    LET e == ensure_slot(m, self, slot)
    IN  IF Stopped(e.m) THEN e
        ELSE wrenSetSlotBool(e.m, self.raw, slot, value)

set_slot_bytes(m, self, slot, bytes) ==
    LET e == ensure_slot(m, self, slot)
    IN  IF Stopped(e.m) THEN e
        ELSE wrenSetSlotBytes(e.m, self.raw, slot, bytes, Len(bytes))

set_slot_double(m, self, slot, value) ==
    LET e == ensure_slot(m, self, slot)
    IN  IF Stopped(e.m) THEN e
        ELSE wrenSetSlotDouble(e.m, self.raw, slot, value)

set_slot_new_foreign(m, self, slot, class_slot, size) ==
    LET e == ensure_slot(m, self, slot)
    IN  IF Stopped(e.m) THEN e
        ELSE LET w == wrenSetSlotNewForeign(e.m, self.raw, slot, class_slot, size)
             IN  Ok(w.m, [k |-> "ptr", v |-> w.ret])

set_slot_new_list(m, self, slot) ==
    LET e == ensure_slot(m, self, slot)
    IN  IF Stopped(e.m) THEN e
        ELSE wrenSetSlotNewList(e.m, self.raw, slot)

set_slot_null(m, self, slot) ==
    LET e == ensure_slot(m, self, slot)
    IN  IF Stopped(e.m) THEN e
        ELSE wrenSetSlotNull(e.m, self.raw, slot)

set_slot_string(m, self, slot, s) ==
    LET e == ensure_slot(m, self, slot)
    IN  IF Stopped(e.m) THEN e
        ELSE IF HasNul(s) THEN Panic(e.m, NulError)
        ELSE wrenSetSlotString(e.m, self.raw, slot, s \o <<0>>)

---------------------------------------------------------------------------
(* impl VM: lists and variables. *)

get_list_count_unchecked(m, self, slot) ==
    LET c == get_slot_count(m, self)
    IN  IF Stopped(c.m) THEN Ok(c.m, Unit)
        ELSE IF ~(c.ret > slot) THEN Panic(c.m, "Slot is out of bounds")
        ELSE wrenGetListCount(c.m, self.raw, slot)

get_list_count(m, self, slot) ==
    LET t == get_slot_type(m, self, slot)
    IN  IF Stopped(t.m) THEN Ok(t.m, Unit)
        ELSE IF t.ret = "List" THEN wrenGetListCount(t.m, self.raw, slot)
        ELSE Ok(t.m, 0)

check_index_unbounded(m, self, list_slot, index) ==
    LET c == get_list_count(m, self, list_slot)
    IN  IF Stopped(c.m) THEN Ok(c.m, Unit)
        ELSE Ok(c.m, IF index < 0 THEN c.ret + 1 + index ELSE index)

check_index(m, self, list_slot, index) ==
    LET t == get_slot_type(m, self, list_slot)
        c == get_list_count(t.m, self, list_slot)
        abs == IF index < 0 THEN c.ret + 1 + index ELSE index
    IN  IF Stopped(t.m) THEN Ok(t.m, Unit)
        ELSE IF t.ret # "List" THEN Panic(t.m, "Slot must contain a list")
        ELSE IF Stopped(c.m) THEN Ok(c.m, Unit)
        ELSE IF ~(abs <= c.ret) THEN Panic(c.m, "List index out of bounds")
        ELSE Ok(c.m, abs)

get_list_element(m, self, list_slot, index, element_slot) ==
    LET e == ensure_slot(m, self, element_slot)
        i == check_index(e.m, self, list_slot, index)
    IN  IF Stopped(e.m) THEN e
        ELSE IF Stopped(i.m) THEN Ok(i.m, Unit)
        ELSE wrenGetListElement(i.m, self.raw, list_slot, i.ret, element_slot)

insert_in_list_ensuring(m, self, list_slot, index, element_slot) ==
    LET e == ensure_slot(m, self, element_slot)
        i == check_index(e.m, self, list_slot, index)
    IN  IF Stopped(e.m) THEN e
        ELSE IF Stopped(i.m) THEN Ok(i.m, Unit)
        ELSE wrenInsertInList(i.m, self.raw, list_slot, i.ret, element_slot)

insert_in_list(m, self, list_slot, index, element_slot) ==
    LET c == get_slot_count(m, self)
        i == check_index(c.m, self, list_slot, index)
    IN  IF Stopped(c.m) THEN Ok(c.m, Unit)
        ELSE IF ~(element_slot < c.ret) THEN Panic(c.m, "No element in slot")
        ELSE IF Stopped(i.m) THEN Ok(i.m, Unit)
        ELSE wrenInsertInList(i.m, self.raw, list_slot, i.ret, element_slot)

get_variable(m, self, module, name, slot) ==
    LET e == ensure_slot(m, self, slot)
    IN  IF Stopped(e.m) THEN e
        ELSE IF HasNul(module) \/ HasNul(name) THEN Panic(e.m, NulError)
        ELSE wrenGetVariable(e.m, self.raw, module \o <<0>>, name \o <<0>>, slot)

abort_fiber(m, self, slot) == wrenAbortFiber(m, self.raw, slot)

(* The files interpret_file may be pointed at: a path with no file, a     *)
(* file that is not UTF-8 text (read_to_string refuses it), the three      *)
(* scripts, and a script with a NUL in its text.                           *)
MissingPath == <<101>>
BinaryPath == <<102>>
GoodPath == <<103>>
SyntaxPath == <<104>>
ThrowPath == <<105>>
NulPath == <<106>>
Paths == {MissingPath, BinaryPath, GoodPath, SyntaxPath, ThrowPath, NulPath}

FileAt(path) ==
    CASE path = BinaryPath -> [exists |-> TRUE, bytes |-> <<255>>]
      [] path = GoodPath -> [exists |-> TRUE, bytes |-> GoodScript]
      [] path = SyntaxPath -> [exists |-> TRUE, bytes |-> BadSyntaxScript]
      [] path = ThrowPath -> [exists |-> TRUE, bytes |-> ThrowingScript]
      [] path = NulPath -> [exists |-> TRUE, bytes |-> <<49, 0, 50>>]
      [] OTHER -> [exists |-> FALSE, bytes |-> <<>>]

Result_Ok(x) == [k |-> "ok", v |-> x]
Result_Err(e) == [k |-> "err", v |-> e]

(* File::open(path)? and file.read_to_string(&mut buffer)? return the     *)
(* io::Error to the caller; otherwise Ok(self.interpret(&buffer)).         *)
interpret_file(m, self, path) ==
    LET file == FileAt(path)
        r == interpret(m, self, file.bytes)
    IN  IF ~file.exists THEN Ok(m, Result_Err("NotFound"))
        ELSE IF ~IsUtf8(file.bytes) THEN Ok(m, Result_Err("InvalidData"))
        ELSE IF Stopped(r.m) THEN Ok(r.m, Unit)
        ELSE Ok(r.m, Result_Ok(r.ret))

---------------------------------------------------------------------------
(* The host program: VM values and Handle values are created, used and     *)
(* dropped in any order.  A non-owning view is only made of, and only used *)
(* on, an instance that is alive (the contract of the unsafe from_ptr);    *)
(* everything else is safe Rust and is not restricted.  VM values with the *)
(* same fields, and Handle values of the same cell, are interchangeable,   *)
(* so the state counts them.                                               *)

VMKinds == [raw : Ptrs, owned : BOOLEAN]
NoSelf == [raw |-> 0, owned |-> FALSE]
NoCell ==
    [st |-> "unborn", strong |-> 0, raw |-> 0, vm |-> 0,
     g_vm |-> 0, g_ref |-> 0, g_clones |-> 0, g_drops |-> 0, g_releases |-> 0]
NoOrc == [ir |-> "Success", n |-> 0, t |-> "Null", b |-> FALSE, s |-> <<>>, checks |-> TRUE]
LifeOrcs == {[NoOrc EXCEPT !.ir = r] : r \in InterpretResults}
SlotOrcs ==
    {NoOrc,
     [NoOrc EXCEPT !.checks = FALSE, !.t = "Bool", !.b = TRUE],
     [NoOrc EXCEPT !.checks = FALSE, !.t = "List", !.n = 1, !.s = <<65>>]}

Signatures == {<<102>>, <<102, 0>>}
LifeSlots == {0}

(* What the properties need to know of the state before the operation:   *)
(* the slot count, and the length of the list in the list slot of a list   *)
(* operation (-1 when there is none).                                      *)
ListOps == {"get_list_count", "get_list_element", "insert_in_list"}

ListLenAt(p, slot) ==
    IF p \in Ptrs /\ slot >= 0 /\ slot < Len(world.inst[p].slots)
       /\ world.inst[p].slots[slot + 1].t = "List"
    THEN Len(world.inst[p].lists[world.inst[p].slots[slot + 1].v[1]].items)
    ELSE -1

Ghost(op, self, args) ==
    [count |-> IF self.raw \in Ptrs THEN Len(world.inst[self.raw].slots) ELSE 0,
     len |-> IF op \in ListOps THEN ListLenAt(self.raw, args[1]) ELSE -1]

ResV(op, self, cell, args, val, o) ==
    [op |-> op, self |-> self, cell |-> cell, args |-> args, val |-> val,
     calls |-> o.m.calls, panic |-> o.m.panic, ret |-> o.ret, g |-> Ghost(op, self, args)]

Res(op, self, cell, args, o) == ResV(op, self, cell, args, NullValue, o)

RECURSIVE SumOver(_, _)
SumOver(f, S) ==
    IF S = {} THEN 0
    ELSE LET x == CHOOSE y \in S : TRUE IN f[x] + SumOver(f, S \ {x})

Lowest(S) == CHOOSE x \in S : \A y \in S : x <= y
VMCount == SumOver(vms, VMKinds)
UnbornCells == {c \in CellIds : cells[c].st = "unborn"}
Usable(self) == vms[self] > 0 /\ world.inst[self.raw].st = "alive"
Releases(calls) == Cardinality({i \in 1..Len(calls) : calls[i].fn = "wrenReleaseHandle"})

(* The ghost fields g_* of a cell record what happened, for the properties: *)
(* the creating VM's pointer, the reference the engine returned, and the    *)
(* numbers of clones made, references dropped and release calls issued.     *)
NewCell(self, o) ==
    Rc_new(o.ret) @@ [g_vm |-> self.raw, g_ref |-> o.m.calls[Len(o.m.calls)].out,
                      g_clones |-> 0, g_drops |-> 0, g_releases |-> 0]

DoVMNew ==
    /\ ~world.ub
    /\ VMCount < MaxVMs
    /\ \E p \in Ptrs : world.inst[p].st = "unborn"
    /\ LET o == VM_new(Start(world, NoOrc))
       IN  /\ world' = Finish(o.m)
           /\ vms' = [vms EXCEPT ![o.ret] = @ + 1]
           /\ res' = Res("VM::new", o.ret, 0, <<>>, Ok(o.m, Unit))
    /\ UNCHANGED cells

DoVMFromPtr(p) ==
    /\ ~world.ub
    /\ VMCount < MaxVMs
    /\ world.inst[p].st = "alive"
    /\ LET o == VM_from_ptr(Start(world, NoOrc), p)
       IN  /\ world' = Finish(o.m)
           /\ vms' = [vms EXCEPT ![o.ret] = @ + 1]
           /\ res' = Res("VM::from_ptr", o.ret, 0, <<>>, Ok(o.m, Unit))
    /\ UNCHANGED cells

DoVMDrop(self) ==
    /\ ~world.ub
    /\ vms[self] > 0
    /\ LET o == VM_drop(Start(world, NoOrc), self)
       IN  /\ world' = Finish(o.m)
           /\ res' = Res("VM::drop", self, 0, <<>>, o)
    /\ vms' = [vms EXCEPT ![self] = @ - 1]
    /\ UNCHANGED cells

DoMakeCallHandle(self, sig) ==
    /\ ~world.ub
    /\ Usable(self)
    /\ UnbornCells # {}
    /\ LET o == make_call_handle(Start(world, NoOrc), self, sig)
           c == Lowest(UnbornCells)
       IN  /\ world' = Finish(o.m)
           /\ res' = Res("make_call_handle", self, c, <<>>, Ok(o.m, Unit))
           /\ IF Stopped(o.m) THEN UNCHANGED cells
              ELSE cells' = [cells EXCEPT ![c] = NewCell(self, o)]
    /\ UNCHANGED vms

DoGetSlotHandle(self, slot) ==
    /\ ~world.ub
    /\ Usable(self)
    /\ UnbornCells # {}
    /\ LET o == get_slot_handle(Start(world, NoOrc), self, slot)
           c == Lowest(UnbornCells)
       IN  /\ world' = Finish(o.m)
           /\ res' = Res("get_slot_handle", self, c, <<slot>>, Ok(o.m, Unit))
           /\ IF Stopped(o.m) THEN UNCHANGED cells
              ELSE cells' = [cells EXCEPT ![c] = NewCell(self, o)]
    /\ UNCHANGED vms

DoHandleClone(c) ==
    /\ ~world.ub
    /\ cells[c].st = "live"
    /\ cells[c].g_clones < MaxClones
    /\ LET o == Handle_clone(Start(world, NoOrc), cells[c])
       IN  /\ world' = Finish(o.m)
           /\ res' = Res("Handle::clone", NoSelf, c, <<>>, Ok(o.m, Unit))
           /\ cells' = [cells EXCEPT ![c] =
                  [cells[c] EXCEPT !.strong = o.ret.strong, !.g_clones = @ + 1,
                                   !.g_releases = @ + Releases(o.m.calls)]]
    /\ UNCHANGED vms

DoHandleDrop(c) ==
    /\ ~world.ub
    /\ cells[c].st = "live"
    /\ LET o == Handle_drop(Start(world, NoOrc), cells[c])
       IN  /\ world' = Finish(o.m)
           /\ res' = Res("Handle::drop", NoSelf, c, <<>>, Ok(o.m, Unit))
           /\ cells' = [cells EXCEPT ![c] =
                  [cells[c] EXCEPT !.strong = o.ret.strong, !.st = o.ret.st,
                                   !.g_drops = @ + 1,
                                   !.g_releases = @ + Releases(o.m.calls)]]
    /\ UNCHANGED vms

DoCall(self, c, orc) ==
    /\ ~world.ub
    /\ Usable(self)
    /\ cells[c].st = "live"
    /\ LET o == call(Start(world, orc), self, cells[c])
       IN  /\ world' = Finish(o.m)
           /\ res' = Res("call", self, c, <<>>, Ok(o.m, [k |-> "result", v |-> o.ret]))
    /\ UNCHANGED <<vms, cells>>

DoSetSlotHandle(self, slot, c) ==
    /\ ~world.ub
    /\ Usable(self)
    /\ cells[c].st = "live"
    /\ LET o == set_slot_handle(Start(world, NoOrc), self, slot, cells[c])
       IN  /\ world' = Finish(o.m)
           /\ res' = Res("set_slot_handle", self, c, <<slot>>, Ok(o.m, Unit))
    /\ UNCHANGED <<vms, cells>>

InitWorld == [inst |-> [p \in Ptrs |-> UnbornInstance], nextRef |-> 1, ub |-> FALSE]
InitRes ==
    [op |-> "init", self |-> NoSelf, cell |-> 0, args |-> <<>>, val |-> NullValue,
     calls |-> <<>>, panic |-> "", ret |-> Unit,
     g |-> [count |-> 0, len |-> -1]]

Init ==
    /\ world = InitWorld
    /\ vms = [k \in VMKinds |-> 0]
    /\ cells = [c \in CellIds |-> NoCell]
    /\ res = InitRes

Next ==
    \/ DoVMNew
    \/ \E p \in Ptrs : DoVMFromPtr(p)
    \/ \E self \in VMKinds : DoVMDrop(self)
    \/ \E self \in VMKinds, sig \in Signatures : DoMakeCallHandle(self, sig)
    \/ \E self \in VMKinds, slot \in LifeSlots : DoGetSlotHandle(self, slot)
    \/ \E c \in CellIds : DoHandleClone(c)
    \/ \E c \in CellIds : DoHandleDrop(c)
    \/ \E self \in VMKinds, c \in CellIds, orc \in LifeOrcs : DoCall(self, c, orc)
    \/ \E self \in VMKinds, slot \in LifeSlots, c \in CellIds : DoSetSlotHandle(self, slot, c)

Spec == Init /\ [][Next]_vars

---------------------------------------------------------------------------
(* The slot API used on one VM (specifications SpecSlots and SpecLists).   *)
(* Slot and index arguments range over valid and invalid values; strings   *)
(* and byte sequences include ones with an interior NUL, and byte          *)
(* sequences one that is not UTF-8.                                        *)

SlotArgs == (-1..MaxSlot) \cup {I32Max}
ListSlotArgs == -1..MaxSlot
IndexArgs == (-(MaxListLen + 2))..(MaxListLen + 1)
Bools == BOOLEAN
Doubles == {7}
Strs == {<<65>>, <<65, 0, 66>>}
ByteStrs == {<<65, 0, 66>>, <<255>>}
ClassSlots == {-1, 0}
VarNames == {[module |-> TheModule, name |-> TheVariable]}

(* What the engine hands back after undefined behaviour and whether the    *)
(* build checks arithmetic overflow only matter for a slot outside         *)
(* 0..i32::MAX - 1.                                                        *)
OrcsFor(slot) == IF slot < 0 \/ slot = I32Max THEN SlotOrcs ELSE {NoOrc}

(* In the writers specification only the overflow of slot + 1 depends on   *)
(* the build.                                                              *)
Unchecked == [NoOrc EXCEPT !.checks = FALSE]
BuildsFor(slot) == IF slot = I32Max THEN {NoOrc, Unchecked} ELSE {NoOrc}

Step(op, self, args, val, o) ==
    /\ ~world.ub
    /\ Usable(self)
    /\ world' = Finish(o.m)
    /\ res' = ResV(op, self, 0, args, val, o)
    /\ UNCHANGED <<vms, cells>>

ResultOf(o) == IF Stopped(o.m) THEN Ok(o.m, Unit) ELSE Ok(o.m, [k |-> "result", v |-> o.ret])

DoInterpret(self, source) ==
    Step("interpret", self, <<>>, StringValue(source),
         ResultOf(interpret(Start(world, NoOrc), self, source)))

DoInterpretInModule(self, module, source) ==
    Step("interpret_in_module", self, <<>>, StringValue(source),
         ResultOf(interpret_in_module(Start(world, NoOrc), self, module, source)))

DoInterpretFile(self, path) ==
    Step("interpret_file", self, <<>>, StringValue(path),
         interpret_file(Start(world, NoOrc), self, path))

DoAbortFiber(self, slot, orc) ==
    Step("abort_fiber", self, <<slot>>, NullValue, abort_fiber(Start(world, orc), self, slot))

DoGetSlotCount(self) ==
    Step("get_slot_count", self, <<>>, NullValue, get_slot_count(Start(world, NoOrc), self))

DoGetSlotType(self, slot, orc) ==
    Step("get_slot_type", self, <<slot>>, NullValue, get_slot_type(Start(world, orc), self, slot))

DoGetSlotBool(self, slot, orc) ==
    Step("get_slot_bool", self, <<slot>>, NullValue, get_slot_bool(Start(world, orc), self, slot))

DoGetSlotBytes(self, slot, orc) ==
    Step("get_slot_bytes", self, <<slot>>, NullValue, get_slot_bytes(Start(world, orc), self, slot))

DoGetSlotDouble(self, slot, orc) ==
    Step("get_slot_double", self, <<slot>>, NullValue, get_slot_double(Start(world, orc), self, slot))

DoGetSlotForeign(self, slot, orc) ==
    Step("get_slot_foreign", self, <<slot>>, NullValue, get_slot_foreign(Start(world, orc), self, slot))

DoGetSlotString(self, slot, orc) ==
    Step("get_slot_string", self, <<slot>>, NullValue, get_slot_string(Start(world, orc), self, slot))

DoSetSlotBool(self, slot, value, orc) ==
    Step("set_slot_bool", self, <<slot>>, BoolValue(value),
         set_slot_bool(Start(world, orc), self, slot, value))

DoSetSlotBytes(self, slot, bytes, orc) ==
    Step("set_slot_bytes", self, <<slot>>, StringValue(bytes),
         set_slot_bytes(Start(world, orc), self, slot, bytes))

DoSetSlotDouble(self, slot, value, orc) ==
    Step("set_slot_double", self, <<slot>>, NumValue(value),
         set_slot_double(Start(world, orc), self, slot, value))

DoSetSlotNewForeign(self, slot, class_slot, orc) ==
    Step("set_slot_new_foreign", self, <<slot, class_slot>>, NullValue,
         set_slot_new_foreign(Start(world, orc), self, slot, class_slot, 8))

DoSetSlotNewList(self, slot, orc) ==
    /\ FreeListIds(world, self.raw) # {}
    /\ Step("set_slot_new_list", self, <<slot>>, NullValue,
            set_slot_new_list(Start(world, orc), self, slot))

DoSetSlotNull(self, slot, orc) ==
    Step("set_slot_null", self, <<slot>>, NullValue, set_slot_null(Start(world, orc), self, slot))

DoSetSlotString(self, slot, s, orc) ==
    Step("set_slot_string", self, <<slot>>, StringValue(s),
         set_slot_string(Start(world, orc), self, slot, s))

DoGetVariable(self, var, slot, orc) ==
    Step("get_variable", self, <<slot>>, StringValue(var.name),
         get_variable(Start(world, orc), self, var.module, var.name, slot))

DoGetListCount(self, slot, orc) ==
    Step("get_list_count", self, <<slot>>, NullValue,
         LET o == get_list_count(Start(world, orc), self, slot)
         IN  Ok(o.m, IF Stopped(o.m) THEN Unit ELSE [k |-> "int", v |-> o.ret]))

DoGetListElement(self, list_slot, index, element_slot, orc) ==
    Step("get_list_element", self, <<list_slot, index, element_slot>>, NullValue,
         get_list_element(Start(world, orc), self, list_slot, index, element_slot))

DoInsertInList(self, list_slot, index, element_slot, orc) ==
    /\ ListLenAt(self.raw, list_slot) < MaxListLen
    /\ Step("insert_in_list", self, <<list_slot, index, element_slot>>, NullValue,
            insert_in_list(Start(world, orc), self, list_slot, index, element_slot))

Self1 == [raw |-> 1, owned |-> TRUE]

(* The state after `VM::new(cfg)`: one instance, its owning VM value. *)
InitSlots ==
    /\ world = [InitWorld EXCEPT !.inst[1] = NewInstance]
    /\ vms = [k \in VMKinds |-> IF k = Self1 THEN 1 ELSE 0]
    /\ cells = [c \in CellIds |-> NoCell]
    /\ res = InitRes

(* Typed writes and reads. *)
NextSlots ==
    \/ \E self \in VMKinds : DoGetSlotCount(self)
    \/ \E self \in VMKinds, slot \in SlotArgs : \E orc \in OrcsFor(slot) : DoGetSlotType(self, slot, orc)
    \/ \E self \in VMKinds, slot \in SlotArgs : \E orc \in OrcsFor(slot) : DoGetSlotBool(self, slot, orc)
    \/ \E self \in VMKinds, slot \in SlotArgs : \E orc \in OrcsFor(slot) : DoGetSlotBytes(self, slot, orc)
    \/ \E self \in VMKinds, slot \in SlotArgs : \E orc \in OrcsFor(slot) : DoGetSlotDouble(self, slot, orc)
    \/ \E self \in VMKinds, slot \in SlotArgs : \E orc \in OrcsFor(slot) : DoGetSlotForeign(self, slot, orc)
    \/ \E self \in VMKinds, slot \in SlotArgs : \E orc \in OrcsFor(slot) : DoGetSlotString(self, slot, orc)
    \/ \E self \in VMKinds, slot \in SlotArgs : \E orc \in OrcsFor(slot) : DoGetListCount(self, slot, orc)
    \/ \E self \in VMKinds, slot \in SlotArgs, v \in Bools : \E orc \in OrcsFor(slot) : DoSetSlotBool(self, slot, v, orc)
    \/ \E self \in VMKinds, slot \in SlotArgs, v \in ByteStrs : \E orc \in OrcsFor(slot) : DoSetSlotBytes(self, slot, v, orc)
    \/ \E self \in VMKinds, slot \in SlotArgs, v \in Doubles : \E orc \in OrcsFor(slot) : DoSetSlotDouble(self, slot, v, orc)
    \/ \E self \in VMKinds, slot \in SlotArgs, v \in Strs : \E orc \in OrcsFor(slot) : DoSetSlotString(self, slot, v, orc)
    \/ \E self \in VMKinds, slot \in SlotArgs : \E orc \in OrcsFor(slot) : DoSetSlotNull(self, slot, orc)
    \/ \E self \in VMKinds, slot \in SlotArgs : \E orc \in OrcsFor(slot) : DoSetSlotNewList(self, slot, orc)

SpecSlots == InitSlots /\ [][NextSlots]_vars

(* Every slot writer, one value each, and every slot reader, after the     *)
(* script has defined the foreign class that get_variable loads; one       *)
(* handle is made from a slot to be written to slots.                      *)
WriteBools == {TRUE}
WriteStrs == {<<65>>}
FirstHandle == UnbornCells = CellIds
WriteIndexes == {0}
WriteListSlotArgs == -1..(MaxSlot - 1)
WriteSlotArgs == WriteListSlotArgs \cup {I32Max}
FirstElement(self, ls) == ListLenAt(self.raw, ls) = 0

(* The state after VM::new(cfg) and interpret(GoodScript). *)
InitWrites ==
    /\ world = [InitWorld EXCEPT !.inst[1] = [NewInstance EXCEPT !.defined = TRUE]]
    /\ vms = [k \in VMKinds |-> IF k = Self1 THEN 1 ELSE 0]
    /\ cells = [c \in CellIds |-> NoCell]
    /\ res = InitRes

NextWrites ==
    \/ \E self \in VMKinds, slot \in WriteSlotArgs, c \in CellIds : DoSetSlotHandle(self, slot, c)
    \/ \E self \in VMKinds, var \in VarNames, slot \in WriteSlotArgs : \E orc \in BuildsFor(slot) : DoGetVariable(self, var, slot, orc)
    \/ \E self \in VMKinds, slot \in WriteSlotArgs, v \in WriteBools : \E orc \in BuildsFor(slot) : DoSetSlotBool(self, slot, v, orc)
    \/ \E self \in VMKinds, slot \in WriteSlotArgs, v \in WriteStrs : \E orc \in BuildsFor(slot) : DoSetSlotBytes(self, slot, v, orc)
    \/ \E self \in VMKinds, slot \in WriteSlotArgs, v \in Doubles : \E orc \in BuildsFor(slot) : DoSetSlotDouble(self, slot, v, orc)
    \/ \E self \in VMKinds, slot \in WriteSlotArgs, v \in Strs : \E orc \in BuildsFor(slot) : DoSetSlotString(self, slot, v, orc)
    \/ \E self \in VMKinds, slot \in WriteSlotArgs : \E orc \in BuildsFor(slot) : DoSetSlotNull(self, slot, orc)
    \/ \E self \in VMKinds, slot \in WriteSlotArgs : \E orc \in BuildsFor(slot) : DoSetSlotNewList(self, slot, orc)
    \/ \E self \in VMKinds, slot \in WriteSlotArgs, cs \in ClassSlots : \E orc \in BuildsFor(slot) : DoSetSlotNewForeign(self, slot, cs, orc)
    \/ \E self \in VMKinds, ls \in WriteListSlotArgs, i \in WriteIndexes, es \in WriteSlotArgs : \E orc \in BuildsFor(es) : DoGetListElement(self, ls, i, es, orc)
    \/ \E self \in VMKinds, ls \in WriteListSlotArgs, i \in WriteIndexes, es \in WriteListSlotArgs : FirstElement(self, ls) /\ DoInsertInList(self, ls, i, es, NoOrc)
    \/ \E self \in VMKinds, slot \in WriteSlotArgs : FirstHandle /\ DoGetSlotHandle(self, slot)
    \/ \E self \in VMKinds, slot \in WriteSlotArgs : \E orc \in BuildsFor(slot) : DoGetSlotType(self, slot, orc)
    \/ \E self \in VMKinds, slot \in WriteSlotArgs : \E orc \in BuildsFor(slot) : DoGetSlotBool(self, slot, orc)
    \/ \E self \in VMKinds, slot \in WriteSlotArgs : \E orc \in BuildsFor(slot) : DoGetSlotBytes(self, slot, orc)
    \/ \E self \in VMKinds, slot \in WriteSlotArgs : \E orc \in BuildsFor(slot) : DoGetSlotDouble(self, slot, orc)
    \/ \E self \in VMKinds, slot \in WriteSlotArgs : \E orc \in BuildsFor(slot) : DoGetSlotForeign(self, slot, orc)
    \/ \E self \in VMKinds, slot \in WriteSlotArgs : \E orc \in BuildsFor(slot) : DoGetSlotString(self, slot, orc)
    \/ \E self \in VMKinds, slot \in WriteSlotArgs : \E orc \in BuildsFor(slot) : DoGetListCount(self, slot, orc)
    \/ \E self \in VMKinds, slot \in WriteSlotArgs : \E orc \in BuildsFor(slot) : DoAbortFiber(self, slot, orc)

SpecWrites == InitWrites /\ [][NextWrites]_vars

(* Lists: a slot holds null or the list; elements are read from the list   *)
(* into a slot and inserted into it from a slot.                           *)
NextLists ==
    \/ \E self \in VMKinds, slot \in ListSlotArgs : \E orc \in OrcsFor(slot) : DoSetSlotNull(self, slot, orc)
    \/ \E self \in VMKinds, slot \in ListSlotArgs : \E orc \in OrcsFor(slot) : DoSetSlotNewList(self, slot, orc)
    \/ \E self \in VMKinds, slot \in ListSlotArgs : \E orc \in OrcsFor(slot) : DoGetListCount(self, slot, orc)
    \/ \E self \in VMKinds, ls \in ListSlotArgs, i \in IndexArgs, es \in ListSlotArgs : \E orc \in OrcsFor(ls) : DoGetListElement(self, ls, i, es, orc)
    \/ \E self \in VMKinds, ls \in ListSlotArgs, i \in IndexArgs, es \in ListSlotArgs : \E orc \in OrcsFor(ls) : DoInsertInList(self, ls, i, es, orc)

SpecLists == InitSlots /\ [][NextLists]_vars

(* Running scripts: from text, in a named module, from a file, and by     *)
(* calling a method through a call handle; get_variable shows what the     *)
(* script defined.                                                         *)
Sources == {GoodScript, BadSyntaxScript, ThrowingScript, <<49, 0, 50>>}
Modules == {TheModule, <<110>>, <<109, 0>>}

NextInterpret ==
    \/ \E self \in VMKinds, source \in Sources : DoInterpret(self, source)
    \/ \E self \in VMKinds, module \in Modules, source \in Sources : DoInterpretInModule(self, module, source)
    \/ \E self \in VMKinds, path \in Paths : DoInterpretFile(self, path)
    \/ \E self \in VMKinds, sig \in Signatures : DoMakeCallHandle(self, sig)
    \/ \E self \in VMKinds, c \in CellIds, orc \in LifeOrcs : DoCall(self, c, orc)
    \/ \E c \in CellIds : DoHandleDrop(c)
    \/ \E self \in VMKinds, var \in VarNames, slot \in WriteSlotArgs : \E orc \in BuildsFor(slot) : DoGetVariable(self, var, slot, orc)
    \/ \E self \in VMKinds, slot \in WriteSlotArgs : \E orc \in OrcsFor(slot) : DoGetSlotType(self, slot, orc)

SpecInterpret == InitSlots /\ [][NextInterpret]_vars

---------------------------------------------------------------------------
(* Properties of the handle and VM lifetimes (specification Spec). *)

Born(c) == cells[c].st # "unborn"
ReleaseOf(c) == [fn |-> "wrenReleaseHandle", vm |-> cells[c].g_vm, args |-> <<cells[c].g_ref>>]
CallSite(x) == [fn |-> x.fn, vm |-> x.vm, args |-> x.args]

(* C1: a handle cloned N times has been released exactly once when all N+1 *)
(* references are dropped and not at all before; the release is issued by  *)
(* the drop of the last reference, and a clone or the drop of a reference   *)
(* that is not the last makes no engine call.                              *)
C1_ReleasedOnceAtLastDrop ==
    /\ \A c \in CellIds : Born(c) =>
          cells[c].g_releases = (IF cells[c].g_drops = cells[c].g_clones + 1 THEN 1 ELSE 0)
    /\ res.op = "Handle::clone" => res.calls = <<>>
    /\ res.op = "Handle::drop" =>
          LET c == res.cell
          IN  IF cells[c].g_drops = cells[c].g_clones + 1
              THEN Len(res.calls) = 1 /\ res.calls[1].fn = "wrenReleaseHandle"
              ELSE res.calls = <<>>

C1_Witness ==
    \E c \in CellIds :
        /\ cells[c].g_clones >= 1
        /\ cells[c].g_drops = cells[c].g_clones + 1
        /\ cells[c].g_releases = 1
        /\ res.op = "Handle::drop" /\ res.cell = c

(* C2: an instance is freed exactly when its owning VM value is dropped,   *)
(* and at most once; the drop of a non-owning view makes no engine call.   *)
C2_FreedByOwnerDropOnly ==
    /\ \A p \in Ptrs :
          /\ world.inst[p].frees <= 1
          /\ world.inst[p].st = "alive" <=> vms[[raw |-> p, owned |-> TRUE]] > 0
          /\ world.inst[p].st = "freed" <=> world.inst[p].frees = 1
    /\ res.op = "VM::drop" =>
          IF res.self.owned
          THEN Len(res.calls) = 1 /\ res.calls[1].fn = "wrenFreeVM"
               /\ res.calls[1].vm = res.self.raw /\ res.calls[1].ok
          ELSE res.calls = <<>>

C2_Witness ==
    /\ res.op = "VM::drop" /\ ~res.self.owned
    /\ world.inst[res.self.raw].st = "freed"

(* C3: every engine operation on a handle (call, set_slot_handle, and the  *)
(* release at the last drop) happens while the instance that issued the    *)
(* handle is alive.                                                        *)
C3_HandleOpsWhileIssuerAlive ==
    \A i \in 1..Len(res.calls) :
        res.calls[i].fn \in {"wrenCall", "wrenSetSlotHandle", "wrenReleaseHandle"} =>
            world.inst[cells[res.cell].g_vm].st = "alive"

(* C9: at most one owning VM value exists per instance; VM::new returns an *)
(* owning value for the instance the engine has just constructed, and      *)
(* VM::from_ptr returns a non-owning one.                                  *)
C9_AtMostOneOwner ==
    /\ \A p \in Ptrs : vms[[raw |-> p, owned |-> TRUE]] <= 1
    /\ res.op = "VM::from_ptr" => ~res.self.owned
    /\ res.op = "VM::new" =>
          /\ res.self.owned
          /\ Len(res.calls) = 1 /\ res.calls[1].fn = "wrenNewVM"
          /\ res.calls[1].out = res.self.raw

C9_Witness ==
    \E p \in Ptrs :
        /\ vms[[raw |-> p, owned |-> TRUE]] = 1
        /\ vms[[raw |-> p, owned |-> FALSE]] >= 1
        /\ res.op = "VM::from_ptr"

---------------------------------------------------------------------------
(* Properties of the slot API. *)

SlotsOf(self) == world.inst[self.raw].slots
CallsTo(fns) == {i \in 1..Len(res.calls) : res.calls[i].fn \in fns}

WriteOps ==
    {"set_slot_bool", "set_slot_bytes", "set_slot_double", "set_slot_new_foreign",
     "set_slot_new_list", "set_slot_null", "set_slot_string", "set_slot_handle",
     "get_variable", "get_list_element"}
WriteFns ==
    {"wrenSetSlotBool", "wrenSetSlotBytes", "wrenSetSlotDouble", "wrenSetSlotNewForeign",
     "wrenSetSlotNewList", "wrenSetSlotNull", "wrenSetSlotString", "wrenSetSlotHandle",
     "wrenGetVariable", "wrenGetListElement"}
TargetSlot(r) == IF r.op = "get_list_element" THEN r.args[3] ELSE r.args[1]
WriteTarget(c) == IF c.fn = "wrenGetListElement" THEN c.args[3] ELSE c.args[1]

(* C4: for every slot index k >= 0 and every slot count, a slot-writing    *)
(* operation ensures capacity for slot k before the engine write is        *)
(* issued: every engine write it makes goes to slot k with k below the     *)
(* slot count at the time of the call, and after the operation the slot    *)
(* count exceeds k.                                                        *)
C4_WritesEnsureCapacity ==
    (res.op \in WriteOps /\ TargetSlot(res) >= 0) =>
        /\ \A i \in CallsTo(WriteFns) :
              /\ WriteTarget(res.calls[i]) = TargetSlot(res)
              /\ TargetSlot(res) < res.calls[i].n
        /\ Len(SlotsOf(res.self)) > TargetSlot(res)

TypedWriters == {"set_slot_bool", "set_slot_bytes", "set_slot_double", "set_slot_string"}
Written(r) ==
    CASE r.op = "set_slot_bool" -> r.val = BoolValue(TRUE)
      [] r.op = "set_slot_double" -> r.val.v[1]
      [] OTHER -> r.val.v
ReadBack(op, self, slot) ==
    CASE op = "set_slot_bool" -> get_slot_bool(Start(world, NoOrc), self, slot)
      [] op = "set_slot_bytes" -> get_slot_bytes(Start(world, NoOrc), self, slot)
      [] op = "set_slot_double" -> get_slot_double(Start(world, NoOrc), self, slot)
      [] op = "set_slot_string" -> get_slot_string(Start(world, NoOrc), self, slot)

(* C5: for every slot k below i32::MAX and every value v, a typed write    *)
(* (bool, double, bytes, string) completes, and the type-matching read of  *)
(* the same slot made immediately after it returns present with exactly v. *)
C5_WriteReadRoundTrip ==
    (res.op \in TypedWriters /\ res.args[1] >= 0 /\ res.args[1] < I32Max) =>
        /\ res.panic = ""
        /\ LET r == ReadBack(res.op, res.self, res.args[1])
           IN  r.m.panic = "" /\ ~r.m.ub /\ r.ret = Some(Written(res))

TypedReads ==
    {"get_slot_bool", "get_slot_bytes", "get_slot_double", "get_slot_foreign", "get_slot_string"}
Expected(op) ==
    CASE op = "get_slot_bool" -> "Bool"
      [] op = "get_slot_bytes" -> "String"
      [] op = "get_slot_double" -> "Num"
      [] op = "get_slot_foreign" -> "Foreign"
      [] op = "get_slot_string" -> "String"
GetterOf(op) ==
    CASE op = "get_slot_bool" -> "wrenGetSlotBool"
      [] op = "get_slot_bytes" -> "wrenGetSlotBytes"
      [] op = "get_slot_double" -> "wrenGetSlotDouble"
      [] op = "get_slot_foreign" -> "wrenGetSlotForeign"
      [] op = "get_slot_string" -> "wrenGetSlotString"
Mismatched(r) ==
    /\ r.op \in TypedReads
    /\ r.args[1] >= 0 /\ r.args[1] < r.g.count
    /\ SlotsOf(r.self)[r.args[1] + 1].t # Expected(r.op)

(* C6: a typed slot read of a slot whose value has another runtime type    *)
(* than the accessor expects returns absent without failing and without    *)
(* calling the engine's typed getter; the typed getter is called only      *)
(* after wrenGetSlotType reported the expected type for that slot.         *)
C6_MismatchedReadIsAbsent ==
    res.op \in TypedReads =>
        /\ Mismatched(res) =>
              /\ res.ret = None
              /\ res.panic = "" /\ ~world.ub
              /\ CallsTo({GetterOf(res.op)}) = {}
        /\ \A i \in CallsTo({GetterOf(res.op)}) :
              \E j \in 1..(i - 1) :
                  /\ res.calls[j].fn = "wrenGetSlotType"
                  /\ res.calls[j].args = res.args
                  /\ res.calls[j].out = Expected(res.op)

C6_Witness ==
    /\ Mismatched(res)
    /\ res.op = "get_slot_string"
    /\ SlotsOf(res.self)[res.args[1] + 1].t = "Num"
    /\ res.ret = None

ListElemOps == {"get_list_element", "insert_in_list"}
ListFns == {"wrenGetListElement", "wrenInsertInList"}
RunListOp(op, self, list_slot, index, element_slot) ==
    IF op = "get_list_element"
    THEN get_list_element(Start(world, NoOrc), self, list_slot, index, element_slot)
    ELSE insert_in_list(Start(world, NoOrc), self, list_slot, index, element_slot)

C7_Step ==
    LET r == res'
        n == r.g.len
    IN  (r.op \in ListElemOps /\ n >= 0) =>
        /\ r.args[2] = -1 =>
              LET o == RunListOp(r.op, r.self, r.args[1], n, r.args[3])
              IN  /\ \A i \in 1..Len(r.calls) :
                        r.calls[i].fn \in ListFns => r.calls[i].args = <<r.args[1], n, r.args[3]>>
                  /\ world' = Finish(o.m)
                  /\ r.ret = o.ret /\ r.panic = o.m.panic /\ r.calls = o.m.calls
        /\ r.args[2] >= n + 1 =>
              /\ r.panic # ""
              /\ \A i \in 1..Len(r.calls) : r.calls[i].fn \notin ListFns
              /\ (r.op = "get_list_element" \/ r.args[3] < r.g.count) =>
                    r.panic = "List index out of bounds"

(* C7: with a list of length n in list_slot, get_list_element and          *)
(* insert_in_list called with index -1 pass the absolute index n to the    *)
(* engine and leave the same state, result and engine calls as the call    *)
(* with index n; with an index >= n + 1 they fail (the bounds assertion,   *)
(* when the element slot is valid) and the engine's list operation is not  *)
(* called.                                                                 *)
C7_MinusOneIsLengthAndBounds == [][C7_Step]_vars

C7_Witness ==
    /\ res.op = "insert_in_list"
    /\ res.args[2] = -1
    /\ res.g.len >= 0
    /\ res.panic = "" /\ ~world.ub
    /\ CallsTo({"wrenInsertInList"}) # {}

ListCountReturned(r) == [k |-> "int", v |-> IF r.g.len >= 0 THEN r.g.len ELSE 0]

(* C8 as stated: for every slot argument get_list_count does not fail and  *)
(* returns the list's element count, or 0 when the slot holds no list.     *)
C8_ListCountNeverFails ==
    res.op = "get_list_count" =>
        res.panic = "" /\ ~world.ub /\ res.ret = ListCountReturned(res)

(* C8 amended: for every slot with 0 <= slot < get_slot_count(),           *)
(* get_list_count does not fail and returns the list's element count, or   *)
(* 0 when the slot holds no list.                                          *)
C8_ListCountOfAllocatedSlot ==
    (res.op = "get_list_count" /\ res.args[1] >= 0 /\ res.args[1] < res.g.count) =>
        res.panic = "" /\ ~world.ub /\ res.ret = ListCountReturned(res)

C8_Witness ==
    /\ res.op = "get_list_count"
    /\ res.args[1] >= 0 /\ res.args[1] < res.g.count
    /\ SlotsOf(res.self)[res.args[1] + 1].t # "List"
    /\ res.ret = [k |-> "int", v |-> 0]

CountOps ==
    WriteOps \cup TypedReads \cup
    {"get_slot_type", "get_list_count", "insert_in_list", "get_slot_handle"}

C12_Step ==
    LET r == res'
        before == world.inst[r.self.raw]
        after == world'.inst[r.self.raw]
    IN  r.op = "insert_in_list" =>
        /\ Len(after.slots) = Len(before.slots)
        /\ r.args[3] >= Len(before.slots) =>
              /\ r.panic = "No element in slot"
              /\ \A i \in 1..Len(r.calls) : r.calls[i].fn # "wrenInsertInList"
              /\ after.lists = before.lists
              /\ world' = world

(* C12: insert_in_list with element_slot >= get_slot_count() fails its     *)
(* element-slot assertion, the engine's insert is not called, and the      *)
(* lists and the slot array are as before; no insert_in_list call changes  *)
(* the slot count.                                                         *)
C12_InsertSourceSlotChecked == [][C12_Step]_vars

C12_Witness ==
    /\ res.op = "insert_in_list"
    /\ res.g.len >= 0
    /\ res.args[3] >= res.g.count
    /\ res.panic = "No element in slot"

(* C13: get_slot_handle(slot) with slot >= get_slot_count() fails its      *)
(* assertion: wrenGetSlotHandle is not called, no Handle comes to exist    *)
(* (the Rc cell it would have filled stays unborn), and no release is      *)
(* issued for it.                                                          *)
C13_HandleSlotOutOfBoundsFailsFast ==
    (res.op = "get_slot_handle" /\ res.args[1] >= res.g.count) =>
        /\ res.panic = "Slot is out of bounds"
        /\ CallsTo({"wrenGetSlotHandle", "wrenReleaseHandle"}) = {}
        /\ cells[res.cell].st = "unborn"
        /\ cells[res.cell].g_releases = 0

C13_Witness ==
    /\ res.op = "get_slot_handle"
    /\ res.args[1] >= res.g.count
    /\ res.panic # ""

---------------------------------------------------------------------------
(* Properties of running scripts, checked under SpecInterpret.             *)

(* C14: interpret_file on a path that cannot be opened or read returns the *)
(* I/O error and calls nothing of the engine; on a readable path it calls  *)
(* the engine's interpret exactly once, with the whole text of the file,   *)
(* and returns that outcome wrapped as success.                            *)
C14_InterpretFile ==
    res.op = "interpret_file" =>
        LET file == FileAt(res.val.v)
        IN  IF ~file.exists \/ ~IsUtf8(file.bytes)
            THEN /\ res.panic = ""
                 /\ res.ret.k = "err"
                 /\ res.calls = <<>>
            ELSE /\ res.panic = ""
                 /\ Len(res.calls) = 1
                 /\ res.calls[1].fn = "wrenInterpret"
                 /\ CStrBytes(res.calls[1].args[1]) = file.bytes
                 /\ res.ret = Result_Ok(res.calls[1].out)

(* C15: for every source text, and every module name, interpret and        *)
(* interpret_in_module return one of Success, CompileError, RuntimeError   *)
(* and do not abort the host.                                              *)
C15_InterpretReturnsOutcome ==
    res.op \in {"interpret", "interpret_in_module"} =>
        /\ res.panic = ""
        /\ res.ret.k = "result"
        /\ res.ret.v \in InterpretResults

---------------------------------------------------------------------------
(* Properties of the slot indexes handed to the engine, checked under      *)
(* SpecWrites.                                                             *)

(* Where the slot indexes stand among the arguments of an engine call. *)
SlotPositions(fn) ==
    CASE fn \in {"wrenGetListElement", "wrenInsertInList"} -> {1, 3}
      [] fn = "wrenSetSlotNewForeign" -> {1, 2}
      [] fn \in {"wrenGetSlotType", "wrenGetSlotBool", "wrenGetSlotBytes", "wrenGetSlotDouble",
                 "wrenGetSlotForeign", "wrenGetSlotString", "wrenGetSlotHandle",
                 "wrenSetSlotBool", "wrenSetSlotBytes", "wrenSetSlotDouble", "wrenSetSlotNull",
                 "wrenSetSlotString", "wrenSetSlotNewList", "wrenSetSlotHandle",
                 "wrenGetListCount", "wrenGetVariable", "wrenAbortFiber"} -> {1}
      [] OTHER -> {}

(* C16: every slot index this layer passes to an engine slot access lies   *)
(* in 0 .. slot count - 1 at the moment of the engine call, whatever       *)
(* integers the host passed as slot arguments.                             *)
C16_EngineSlotsInRange ==
    \A i \in 1..Len(res.calls) :
        \A k \in SlotPositions(res.calls[i].fn) :
            /\ 0 <= res.calls[i].args[k]
            /\ res.calls[i].args[k] < res.calls[i].n

---------------------------------------------------------------------------
(* Properties of the list index handed to the engine, checked under        *)
(* SpecLists.                                                              *)

ForwardedIndexes(fns) == {res.calls[i].args[2] : i \in CallsTo(fns)}

(* C17: with a list of length n in list_slot, the index get_list_element   *)
(* and insert_in_list forward to the engine is absolute, within 0 .. n,    *)
(* and an index below -(n + 1) fails instead of being forwarded.           *)
C17_ForwardedIndexIsAbsolute ==
    (res.op \in ListElemOps /\ res.g.len >= 0) =>
        /\ \A i \in ForwardedIndexes(ListFns) : 0 <= i /\ i <= res.g.len
        /\ res.args[2] < -(res.g.len + 1) =>
              /\ res.panic # ""
              /\ CallsTo(ListFns) = {}

(* C18: when get_list_element does not fail on a list of length n, the     *)
(* index it passes to the engine addresses an existing element,            *)
(* 0 <= index < n; none is read from an empty list.                        *)
C18_ElementReadIsOfExistingElement ==
    (res.op = "get_list_element" /\ res.g.len >= 0 /\ res.panic = "") =>
        \A i \in ForwardedIndexes({"wrenGetListElement"}) : 0 <= i /\ i < res.g.len

---------------------------------------------------------------------------
(* The order of handle uses and releases, checked under Spec.              *)

HandleUses == CallsTo({"wrenCall", "wrenSetSlotHandle"})
RefUsed(c) == IF c.fn = "wrenCall" THEN c.args[1] ELSE c.args[2]
ReleasedCells == {c \in CellIds : Born(c) /\ cells[c].g_releases >= 1}

(* C19: the reference handed to the engine by call and set_slot_handle is  *)
(* one not yet released (and, used on the instance that issued it while    *)
(* that instance is alive, one the engine still holds); a handle is        *)
(* released at most once, and releases never outnumber creations.          *)
C19_NoUseAfterRelease ==
    /\ \A i \in HandleUses :
          \A c \in CellIds : (Born(c) /\ cells[c].g_ref = RefUsed(res.calls[i])) =>
              /\ cells[c].g_releases = 0
              /\ (res.calls[i].vm = cells[c].g_vm /\ world.inst[cells[c].g_vm].st = "alive") =>
                    cells[c].g_ref \in LiveRefs(world, cells[c].g_vm)
    /\ \A c \in CellIds : Born(c) => cells[c].g_releases <= 1
    /\ Cardinality(ReleasedCells) <= world.nextRef - 1

C19_Witness ==
    /\ res.op \in {"call", "set_slot_handle"}
    /\ HandleUses # {}
    /\ cells[res.cell].g_clones >= 1
    /\ cells[res.cell].g_drops >= 1
    /\ ~world.ub

====
